---------------------------- MODULE Spec2Model ----------------------------
(***************************************************************************)
(* A model of the solana-tracker pipeline: the scan loop                   *)
(* (checkWallets / checkWalletTransactions / analyzeTransaction), the      *)
(* per-day coordinated-buy accumulator (handleTokenTransfer), the swap     *)
(* classifier (detectSwaps), the six-hourly sweep, the price oracle        *)
(* (PriceService.getPrice) and the token lookup (getTokenDetails).         *)
(*                                                                         *)
(* The pipeline is modelled from the most complete source variant,         *)
(* src/unnamed/part_003 (the only one with day buckets, alertedTokens and  *)
(* the sweep).  Every `await` on I/O is a point where another scan cycle   *)
(* or the sweep timer may run; the code between two awaits is one step.    *)
(***************************************************************************)
EXTENDS Integers, Sequences, FiniteSets, TLC

VARIABLES
  WALLETS,          \* the configured list of watched wallets
  chain,            \* the ledger: signatures per address, transaction per signature
  today,            \* the calendar day of the clock (new Date())
  processedTxs,     \* Set of signatures
  dailyTokenStats,  \* day -> (mint -> bucket)
  alertedTokens,    \* Set of mints
  task,             \* the checkWallets() invocations in flight
  scans,            \* number of checkWallets() invocations started
  sweeps,           \* number of sweep callbacks run
  analyzeStarted,   \* history: signature -> number of analyzeTransaction calls
  alertsFor,        \* history: signature -> number of alerts sent while analysing it
  windowAlerts,     \* history: mint -> coordinated-buy alerts since the last sweep
  checkLog,         \* history: every evaluation of the coordinated-buy condition
  limits,           \* how far a behaviour of the model goes: scans, sweeps, days, failing sends
  swIn,             \* detectSwaps under test: its arguments and the prices it is served
  swOut,            \* detectSwaps under test: its outcome
  cache,            \* priceService.cache: key -> {price, timestamp}
  now,              \* Date.now()
  calls,            \* the priceService.getPrice() invocations in flight
  priceLog,         \* history: the getPrice invocation that returned last
  priceOps,         \* history: number of getPrice calls started, of clock advances
  lookup,           \* getTokenDetails under test: its argument, what its sources answer, its outcome
  gate,             \* the request throttle under test: lastCallTime, sleeping requests, releases
  sent              \* history: the last sendTelegramAlert call of handleTokenTransfer

vars == << WALLETS, chain, today, processedTxs, dailyTokenStats, alertedTokens,
           task, scans, sweeps, analyzeStarted, alertsFor, windowAlerts,
           checkLog, limits, swIn, swOut, cache, now, calls, priceLog, priceOps,
           lookup, gate, sent >>

-----------------------------------------------------------------------------
(* Bounds of the model *)

RaceScans == 2
RaceSweeps == 1
SeqScans == 1
SeqSweeps == 1
SeqDays == 1

(* Program constants *)

MIN_WALLETS == 3
SWAP_THRESHOLD == 5000

-----------------------------------------------------------------------------
(* Small helpers *)

Abs(x) == IF x < 0 THEN -x ELSE x

MinOf(S) == CHOOSE x \in S : \A y \in S : x <= y

Range(s) == { s[i] : i \in 1..Len(s) }

-----------------------------------------------------------------------------
(* detectSwaps: balance changes of the wallet, classification, threshold     *)

\* preBalances.find(b => b.mint === balance.mint && b.owner === balance.owner),
\* then pre?.uiTokenAmount?.uiAmount || 0
PreAmount(pre, bal) ==
  LET I == { i \in 1..Len(pre) :
               pre[i].mint = bal.mint /\ pre[i].owner = bal.owner }
  IN  IF I = {} THEN 0 ELSE pre[MinOf(I)].uiAmount

\* changes[balance.mint] = {..., change: diff}: a new key is appended to the
\* object's key order, an existing key keeps its place and gets the new value
PutChange(changes, mint, diff) ==
  LET I == { i \in 1..Len(changes) : changes[i].mint = mint }
  IN  IF I = {}
      THEN Append(changes, [mint |-> mint, change |-> diff])
      ELSE [changes EXCEPT ![MinOf(I)] = [mint |-> mint, change |-> diff]]

\* the loop over postBalances; only entries owned by the wallet are looked at
RECURSIVE BalanceChanges(_, _, _, _, _)
BalanceChanges(pre, post, wallet, i, changes) ==
  IF i > Len(post) THEN changes
  ELSE LET balance == post[i]
           diff    == balance.uiAmount - PreAmount(pre, balance)
       IN  IF balance.owner # wallet
           THEN BalanceChanges(pre, post, wallet, i + 1, changes)
           ELSE IF Abs(diff) > 0
                THEN BalanceChanges(pre, post, wallet, i + 1,
                                    PutChange(changes, balance.mint, diff))
                ELSE BalanceChanges(pre, post, wallet, i + 1, changes)

NoSwap == [swap |-> FALSE, sold |-> "-", soldAmount |-> 0,
           bought |-> "-", boughtAmount |-> 0, usdValue |-> 0, alert |-> FALSE]

\* (a variant that also returns at the threshold itself)
LargeSwapStrict(usdValue) == ~(usdValue <= SWAP_THRESHOLD)
\* `if (usdValue < 5000) return;` : TRUE when the alert is sent
LargeSwap(usdValue) == ~(usdValue < SWAP_THRESHOLD)

\* (a variant that tests the threshold on the bought leg's value)
SwapOfTestingBought(tokenIn, tokenOut, price) ==
  LET usdValue == Abs(tokenIn.change) * price[tokenIn.mint]
  IN  [swap |-> TRUE, sold |-> tokenIn.mint, soldAmount |-> Abs(tokenIn.change),
       bought |-> tokenOut.mint, boughtAmount |-> Abs(tokenOut.change),
       usdValue |-> usdValue,
       alert |-> LargeSwap(Abs(tokenOut.change) * price[tokenOut.mint])]
\* tokenIn is the sold leg, tokenOut the bought leg; usdValue prices the sold leg
SwapOf(tokenIn, tokenOut, price) ==
  LET usdValue == Abs(tokenIn.change) * price[tokenIn.mint]
  IN  [swap |-> TRUE, sold |-> tokenIn.mint, soldAmount |-> Abs(tokenIn.change),
       bought |-> tokenOut.mint, boughtAmount |-> Abs(tokenOut.change),
       usdValue |-> usdValue, alert |-> LargeSwap(usdValue)]

\* the branch on the signs of the two changes
Classify(tokenA, tokenB, price) ==
  IF tokenA.change > 0 /\ tokenB.change < 0 THEN SwapOf(tokenB, tokenA, price)
  ELSE IF tokenA.change < 0 /\ tokenB.change > 0 THEN SwapOf(tokenA, tokenB, price)
  ELSE NoSwap

\* price[m] is what priceService.getPrice(m) returns in this evaluation
detectSwaps(tx, wallet, price) ==
  LET changes == BalanceChanges(tx.pre, tx.post, wallet, 1, << >>)
  IN  IF Len(changes) # 2 THEN NoSwap
      ELSE Classify(changes[1], changes[2], price)


-----------------------------------------------------------------------------
(* The ledger (LedgerClient) and the shape of a parsed transaction          *)

Instruction(type, mint, destination, uiAmount) ==
  [type |-> type, mint |-> mint, destination |-> destination, uiAmount |-> uiAmount]

Balance(owner, mint, uiAmount) ==
  [owner |-> owner, mint |-> mint, uiAmount |-> uiAmount]

\* a token transfer of `amount` of `mint` into `wallet`: one parsed top-level
\* instruction, and the wallet's balance of the mint rising by the amount
TransferTx(wallet, mint, amount) ==
  [hasInstructions |-> TRUE,
   ixs  |-> << Instruction("transfer", mint, wallet, amount) >>,
   hasBalances |-> TRUE,
   pre  |-> << Balance(wallet, mint, 0) >>,
   post |-> << Balance(wallet, mint, amount) >>]

\* meta without preTokenBalances / postTokenBalances (a transaction from before
\* token balances were recorded, or meta: null)
WithoutBalances(tx) ==
  [tx EXCEPT !.hasBalances = FALSE, !.pre = << >>, !.post = << >>]

\* a response without transaction.message.instructions
WithoutInstructions(tx) ==
  [tx EXCEPT !.hasInstructions = FALSE, !.ixs = << >>]

\* a swap through a program: no parsed top-level transfer, two balances move
SwapTx(wallet, soldMint, soldAmount, boughtMint, boughtAmount) ==
  [hasInstructions |-> TRUE,
   ixs  |-> << Instruction("route", "-", "-", 0) >>,
   hasBalances |-> TRUE,
   pre  |-> << Balance(wallet, soldMint, soldAmount), Balance(wallet, boughtMint, 0) >>,
   post |-> << Balance(wallet, soldMint, 0), Balance(wallet, boughtMint, boughtAmount) >>]

Prices == {0, 50, 250}

TxMints(tx) == { tx.post[i].mint : i \in 1..Len(tx.post) }

-----------------------------------------------------------------------------
(* One checkWallets() invocation: where it is suspended, and its locals      *)

Tasks == {1, 2}

NoRef == [ref |-> "none", wallets |-> << >>, totalAmount |-> 0]
LiveRef == [ref |-> "live", wallets |-> << >>, totalAmount |-> 0]
Detached(bucket) ==
  [ref |-> "detached", wallets |-> bucket.wallets, totalAmount |-> bucket.totalAmount]

\* pc: the await the invocation is suspended at
\*   list    connection.getSignaturesForAddress      (checkWalletTransactions)
\*   fetch   connection.getParsedTransaction         (checkWalletTransactions)
\*   details getTokenDetails(mint)                   (handleTokenTransfer)
\*   price   priceService.getPrice(mint)             (handleTokenTransfer)
\*   send    sendTelegramAlert(message)              (handleTokenTransfer)
\*   swap    the awaits of detectSwaps
\* w, i, k: index of the wallet, of the signature, of the instruction
\* day: `today` as read by handleTokenTransfer; tokenData: its bucket reference
Idle == [pc |-> "idle", w |-> 0, i |-> 0, k |-> 0, day |-> 0,
         grew |-> FALSE, tokenData |-> NoRef]

WalletOf(t) == WALLETS[t.w]
SigsOf(t) == chain.sigsOf[WalletOf(t)]
SigOf(t) == SigsOf(t)[t.i]
TxOf(t) == chain.txOf[SigOf(t)]
IxOf(t) == TxOf(t).ixs[t.k]

\* the part of the state one invocation's step may change
World(t, dts, pt) == [t |-> t, dts |-> dts, pt |-> pt]

\* checkWallets: `for (const wallet of WALLETS) await checkWalletTransactions(wallet)`
NextWallet(g) ==
  IF g.t.w < Len(WALLETS)
  THEN [g EXCEPT !.t = [Idle EXCEPT !.pc = "list", !.w = g.t.w + 1]]
  ELSE [g EXCEPT !.t = Idle]

\* (a variant that does not consult the seen-set)
NextSigUnfiltered(g, i) ==
  IF i > Len(SigsOf(g.t)) THEN NextWallet(g)
  ELSE [g EXCEPT !.t = [Idle EXCEPT !.pc = "fetch", !.w = g.t.w, !.i = i]]
\* the head of the loop over signatures: `if (processedTxs.has(signature)) continue;`
NextSig(g, i) ==
  LET J == { j \in i..Len(SigsOf(g.t)) : SigsOf(g.t)[j] \notin g.pt }
  IN  IF J = {} THEN NextWallet(g)
      ELSE [g EXCEPT !.t = [Idle EXCEPT !.pc = "fetch", !.w = g.t.w, !.i = MinOf(J)]]

\* `processedTxs.add(signature)` after analyzeTransaction returned, then the next one
FinishSig(g) ==
  NextSig([g EXCEPT !.pt = g.pt \cup {SigOf(g.t)}], g.t.i + 1)

\* (a variant without the destination test)
IncomingAnyDestination(ix, wallet) ==
  /\ ix.type \in {"transfer", "transferChecked"}
  /\ ix.uiAmount # 0
\* handleTokenTransfer's early return: `destination !== wallet || !tokenAmount?.uiAmount`
Incoming(ix, wallet) ==
  /\ ix.type \in {"transfer", "transferChecked"}
  /\ ix.destination = wallet
  /\ ix.uiAmount # 0

EmptyDay == [m \in {} |-> 0]

NewBucket == [wallets |-> << >>, totalAmount |-> 0]

\* (a variant that counts transfers, not wallets, as tracker.js:429 does)
RecordTransferCounting(bucket, wallet, uiAmount) ==
  [wallets |-> Append(bucket.wallets, wallet),
   totalAmount |-> bucket.totalAmount + uiAmount]
\* (a variant that finds the bucket reset after its alert, as part_000:148 and
\* tracker.js:193 leave it)
RecordTransferResetting(bucket, wallet, uiAmount) ==
  IF Len(bucket.wallets) >= MIN_WALLETS
  THEN [wallets |-> << wallet >>, totalAmount |-> uiAmount]
  ELSE [wallets |-> IF wallet \in Range(bucket.wallets) THEN bucket.wallets
                    ELSE Append(bucket.wallets, wallet),
        totalAmount |-> bucket.totalAmount + uiAmount]
\* tokenData.wallets.add(wallet); tokenData.totalAmount += uiAmount
\* (a JavaScript Set keeps insertion order and ignores a value it holds)
RecordTransfer(bucket, wallet, uiAmount) ==
  [wallets |-> IF wallet \in Range(bucket.wallets) THEN bucket.wallets
               ELSE Append(bucket.wallets, wallet),
   totalAmount |-> bucket.totalAmount + uiAmount]

\* dailyTokenStats[day][mint] = bucket
PutBucket(dts, day, mint, bucket) ==
  LET old == dts[day]
      new == [m \in DOMAIN old \cup {mint} |-> IF m = mint THEN bucket ELSE old[m]]
  IN  [dts EXCEPT ![day] = new]

\* handleTokenTransfer from its start to its first await, for instruction k
EnterTransfer(g, k) ==
  LET ix   == TxOf(g.t).ixs[k]
      dts1 == IF today \in DOMAIN g.dts THEN g.dts
              ELSE [d \in DOMAIN g.dts \cup {today} |->
                      IF d = today THEN EmptyDay ELSE g.dts[d]]
      t1   == [g.t EXCEPT !.k = k, !.day = today]
  IN  IF ix.mint \in DOMAIN dts1[today]
      THEN LET b == dts1[today][ix.mint]
           IN  [g EXCEPT !.dts = PutBucket(dts1, today, ix.mint,
                                           RecordTransfer(b, WalletOf(g.t), ix.uiAmount)),
                         !.t = [t1 EXCEPT !.pc = "price", !.tokenData = LiveRef,
                                          !.grew = WalletOf(g.t) \notin Range(b.wallets)]]
      ELSE [g EXCEPT !.dts = dts1,
                     !.t = [t1 EXCEPT !.pc = "details", !.tokenData = NoRef,
                                      !.grew = FALSE]]

\* analyzeTransaction from instruction k on, up to the next await
Analyze(g, k) ==
  LET tx == TxOf(g.t)
      J  == { j \in k..Len(tx.ixs) : Incoming(tx.ixs[j], WalletOf(g.t)) }
  IN  IF ~tx.hasInstructions THEN FinishSig(g)
      ELSE IF J # {} THEN EnterTransfer(g, MinOf(J))
      ELSE IF tx.hasBalances
           THEN [g EXCEPT !.t = [g.t EXCEPT !.pc = "swap", !.k = 0,
                                            !.tokenData = NoRef, !.grew = FALSE]]
           ELSE FinishSig(g)

\* the bucket a suspended handleTokenTransfer holds in `tokenData`
TokenData(t) ==
  IF t.tokenData.ref = "live"
  THEN dailyTokenStats[t.day][IxOf(t).mint]
  ELSE [wallets |-> t.tokenData.wallets, totalAmount |-> t.tokenData.totalAmount]

\* (a variant without the alertedTokens test, as tracker.js:184 has it)
AlertConditionNoLatch(bucket, mint) ==
  Len(bucket.wallets) >= MIN_WALLETS
\* (a variant that alerts one wallet early)
AlertConditionLoose(bucket, mint) ==
  Len(bucket.wallets) >= MIN_WALLETS - 1 /\ mint \notin alertedTokens
\* `tokenData.wallets.size >= 3 && !alertedTokens.has(mint)`
AlertCondition(bucket, mint) ==
  Len(bucket.wallets) >= MIN_WALLETS /\ mint \notin alertedTokens

\* the other invocations' `tokenData` after the object at (day, mints) left the map:
\* they keep the object they hold
KeepHeld(c, days, mints) ==
  [d \in Tasks |->
     IF /\ d # c
        /\ task[d].tokenData.ref = "live"
        /\ task[d].day \in days
        /\ IxOf(task[d]).mint \in mints
     THEN [task[d] EXCEPT !.tokenData = Detached(TokenData(task[d]))]
     ELSE task[d]]

-----------------------------------------------------------------------------
(* The steps of the program                                                 *)

Here(c) == World(task[c], dailyTokenStats, processedTxs)

\* the step of invocation c leads to g; the other invocations are `others`
Becomes(c, g, others) ==
  /\ task' = [others EXCEPT ![c] = g.t]
  /\ dailyTokenStats' = g.dts
  /\ processedTxs' = g.pt

Bump(f, x) == [f EXCEPT ![x] = @ + 1]

Settings == << WALLETS, chain, limits, swIn, swOut,
               cache, now, calls, priceLog, priceOps, lookup, gate >>

Pipeline == << Settings, sent >>

\* checkWallets() is called: once at listen, then by setInterval(checkWallets, ...)
\* whether or not an earlier invocation has returned
StartScan(c) ==
  /\ task[c].pc = "idle"
  /\ scans < limits.scans
  /\ scans' = scans + 1
  /\ Becomes(c, NextWallet(Here(c)), task)
  /\ UNCHANGED << Pipeline, today, alertedTokens, sweeps, analyzeStarted,
                  alertsFor, windowAlerts, checkLog >>

\* getSignaturesForAddress returns the wallet's recent signatures
ListReturns(c) ==
  /\ task[c].pc = "list"
  /\ Becomes(c, NextSig(Here(c), 1), task)
  /\ UNCHANGED << Pipeline, today, alertedTokens, scans, sweeps, analyzeStarted,
                  alertsFor, windowAlerts, checkLog >>

\* getSignaturesForAddress throws: logged by checkWalletTransactions' outer catch
ListThrows(c) ==
  /\ task[c].pc = "list"
  /\ Becomes(c, NextWallet(Here(c)), task)
  /\ UNCHANGED << Pipeline, today, alertedTokens, scans, sweeps, analyzeStarted,
                  alertsFor, windowAlerts, checkLog >>

\* (a variant with the outer try only, as part_000:74-92 has it: a throw ends the
\* wallet's loop)
AfterThrowAborting(g) == NextWallet(g)
\* the inner catch of checkWalletTransactions logs, and the loop goes on
AfterThrow(g) == NextSig(g, g.t.i + 1)

\* getParsedTransaction throws: logged by the inner catch, the signature is not added
FetchThrows(c) ==
  /\ task[c].pc = "fetch"
  /\ Becomes(c, AfterThrow(Here(c)), task)
  /\ UNCHANGED << Pipeline, today, alertedTokens, scans, sweeps, analyzeStarted,
                  alertsFor, windowAlerts, checkLog >>

\* (a variant that leaves a null transaction unmarked, to be fetched again)
AfterNullUnmarked(g) == NextSig(g, g.t.i + 1)
\* `if (!tx?.transaction?.message?.instructions) return;` then
\* `processedTxs.add(signature)`
AfterNull(g) == FinishSig(g)

\* getParsedTransaction returns null: analyzeTransaction(null) returns at once
FetchNull(c) ==
  /\ task[c].pc = "fetch"
  /\ analyzeStarted' = Bump(analyzeStarted, SigOf(task[c]))
  /\ Becomes(c, AfterNull(Here(c)), task)
  /\ UNCHANGED << Pipeline, today, alertedTokens, scans, sweeps,
                  alertsFor, windowAlerts, checkLog >>

\* getParsedTransaction returns the transaction: analyzeTransaction(tx, wallet) starts
FetchReturns(c) ==
  /\ task[c].pc = "fetch"
  /\ analyzeStarted' = Bump(analyzeStarted, SigOf(task[c]))
  /\ Becomes(c, Analyze(Here(c), 1), task)
  /\ UNCHANGED << Pipeline, today, alertedTokens, scans, sweeps,
                  alertsFor, windowAlerts, checkLog >>

\* getTokenDetails returned: the bucket is created and assigned, the transfer recorded.
\* When the sweep deleted dailyTokenStats[day] meanwhile the assignment throws, and
\* handleTokenTransfer's catch logs it.
DetailsReturn(c) ==
  LET t  == task[c]
      ix == IxOf(t)
  IN  /\ t.pc = "details"
      /\ IF t.day \in DOMAIN dailyTokenStats
         THEN LET b == RecordTransfer(NewBucket, WalletOf(t), ix.uiAmount)
                  g == [Here(c) EXCEPT
                          !.dts = PutBucket(dailyTokenStats, t.day, ix.mint, b),
                          !.t = [t EXCEPT !.pc = "price", !.tokenData = LiveRef,
                                          !.grew = TRUE]]
              IN  Becomes(c, g, KeepHeld(c, {t.day}, {ix.mint}))
         ELSE Becomes(c, Analyze(Here(c), t.k + 1), task)
      /\ UNCHANGED << Pipeline, today, alertedTokens, scans, sweeps, analyzeStarted,
                      alertsFor, windowAlerts, checkLog >>

\* what the history keeps of one evaluation of the condition at line 178
Check(t, bucket, emitted) ==
  [sig |-> SigOf(t), k |-> t.k, wallet |-> WalletOf(t), mint |-> IxOf(t).mint,
   day |-> t.day, size |-> Cardinality(Range(bucket.wallets)), grew |-> t.grew,
   alerted |-> IxOf(t).mint \in alertedTokens, window |-> sweeps,
   emitted |-> emitted]

\* getPrice returned: the condition is evaluated; when it holds the message is built
\* and sendTelegramAlert is called, otherwise handleTokenTransfer returns
PriceReturns(c) ==
  LET t    == task[c]
      mint == IxOf(t).mint
      b    == TokenData(t)
  IN  /\ t.pc = "price"
      /\ IF AlertCondition(b, mint)
         THEN /\ Becomes(c, [Here(c) EXCEPT !.t = [t EXCEPT !.pc = "send"]], task)
              /\ alertsFor' = Bump(alertsFor, SigOf(t))
              /\ windowAlerts' = Bump(windowAlerts, mint)
              /\ checkLog' = checkLog \cup {Check(t, b, TRUE)}
         ELSE /\ Becomes(c, Analyze(Here(c), t.k + 1), task)
              /\ checkLog' = checkLog \cup {Check(t, b, FALSE)}
              /\ UNCHANGED << alertsFor, windowAlerts >>
      /\ UNCHANGED << Pipeline, today, alertedTokens, scans, sweeps, analyzeStarted >>

\* what axios.post to the Telegram API may do
PostOutcomes == IF limits.failures THEN {"ok", "throw"} ELSE {"ok"}

\* (a variant that lets the error of axios.post out)
sendTelegramAlertRethrowing(post) ==
  [posts |-> 1, delivered |-> post = "ok", threw |-> post # "ok"]
\* sendTelegramAlert with TG_TOKEN and TG_CHAT_ID set: one axios.post inside
\* try/catch, the catch logs
sendTelegramAlert(post) ==
  [posts |-> 1, delivered |-> post = "ok", threw |-> FALSE]

NoSend == [sig |-> "-", mint |-> "-", posts |-> 0, delivered |-> FALSE, threw |-> FALSE]

\* sendTelegramAlert returned: alertedTokens.add(mint), and the loop over the
\* instructions goes on. Had it thrown, handleTokenTransfer's catch would log
\* and the add would be skipped.
SendReturns(c) ==
  LET t == task[c]
  IN  /\ t.pc = "send"
      /\ \E post \in PostOutcomes :
           LET r == sendTelegramAlert(post)
           IN  /\ sent' = [sig |-> SigOf(t), mint |-> IxOf(t).mint, posts |-> r.posts,
                           delivered |-> r.delivered, threw |-> r.threw]
               /\ alertedTokens' = IF r.threw THEN alertedTokens
                                   ELSE alertedTokens \cup {IxOf(t).mint}
      /\ Becomes(c, Analyze(Here(c), t.k + 1), task)
      /\ UNCHANGED << Settings, today, scans, sweeps, analyzeStarted,
                      alertsFor, windowAlerts, checkLog >>

\* detectSwaps runs to its end, served some price for each mint of the snapshots;
\* then processedTxs.add(signature)
SwapReturns(c) ==
  LET t == task[c]
  IN  /\ t.pc = "swap"
      /\ \E price \in [TxMints(TxOf(t)) -> Prices] :
           alertsFor' = IF detectSwaps(TxOf(t), WalletOf(t), price).alert
                        THEN Bump(alertsFor, SigOf(t)) ELSE alertsFor
      /\ Becomes(c, FinishSig(Here(c)), task)
      /\ UNCHANGED << Pipeline, today, alertedTokens, scans, sweeps, analyzeStarted,
                      windowAlerts, checkLog >>

\* getYesterdayDate()
Yesterday == today - 1

\* (a variant that forgets nothing)
clearNothing(set) == set
\* alertedTokens.clear()
clear(set) == {}

\* the setInterval callback of the cleanup section, getYesterdayDate() giving `yesterday`
SweepKeeping(yesterday) ==
  LET kept == { d \in DOMAIN dailyTokenStats : ~(d # today /\ d # yesterday) }
      gone == DOMAIN dailyTokenStats \ kept
  IN  /\ sweeps < limits.sweeps
      /\ sweeps' = sweeps + 1
      /\ dailyTokenStats' = [d \in kept |-> dailyTokenStats[d]]
      /\ alertedTokens' = clear(alertedTokens)
      /\ task' = KeepHeld(0, gone, DOMAIN windowAlerts)
      /\ windowAlerts' = [m \in DOMAIN windowAlerts |-> 0]
      /\ UNCHANGED << Pipeline, today, processedTxs, scans, analyzeStarted,
                      alertsFor, checkLog >>

\* the sweep where a local day is as long as a UTC day
Sweep == SweepKeeping(Yesterday)

\* midnight passes
NextDay ==
  /\ today < limits.days
  /\ today' = today + 1
  /\ UNCHANGED << Pipeline, processedTxs, dailyTokenStats, alertedTokens, task,
                  scans, sweeps, analyzeStarted, alertsFor, windowAlerts, checkLog >>

Step(c) ==
  \/ ListReturns(c)
  \/ ListThrows(c)
  \/ FetchThrows(c)
  \/ FetchNull(c)
  \/ FetchReturns(c)
  \/ DetailsReturn(c)
  \/ PriceReturns(c)
  \/ SendReturns(c)
  \/ SwapReturns(c)

-----------------------------------------------------------------------------
(* PriceService.getPrice: cache, ordered sources, fallback                   *)

PriceCalls == 2
PriceTicks == 1

cacheDuration == 300000

WSOL == "So11111111111111111111111111111111111111112"

\* the mints getPrice is asked about, and how long the clock may jump at once
PriceMints == {WSOL, "M"}
Delays == {cacheDuration - 1, cacheDuration}

Callers == {1, 2}

\* sources, in the order of the `sources` array
Sources == << "_tryJupiterPrice", "_tryBirdeyePrice", "_tryCoingeckoPrice",
              "_tryBinancePrice" >>

\* what awaiting a source gives: it throws, or yields undefined, NaN or a number.
\* `asset` is not part of the value: it remembers whose price the number is.
Threw == [kind |-> "throw", value |-> 0, asset |-> "-"]
Undefined == [kind |-> "undefined", value |-> 0, asset |-> "-"]
NotANumber == [kind |-> "NaN", value |-> 0, asset |-> "-"]
Number(v, asset) == [kind |-> "number", value |-> v, asset |-> asset]

Quotes == {0, 0 - 5, 42}

\* _tryJupiterPrice and _tryBirdeyePrice ask for mintAddress; _tryCoingeckoPrice and
\* _tryBinancePrice take no argument and ask for solana / SOLUSDT
QuotedAsset(k, key) == IF k <= 2 THEN key ELSE "SOL"

\* `?.price`, `?.value`, `?.usd` may be undefined; parseFloat gives a number or NaN
AnswersOf(k, key) ==
  {Threw} \cup (IF k = 4 THEN {NotANumber} ELSE {Undefined})
          \cup { Number(v, QuotedAsset(k, key)) : v \in Quotes }

\* `if (price)`
Truthy(a) == a.kind = "number" /\ a.value # 0

\* `if (mintAddress === 'So1...112') mintAddress = 'SOL'`
Normalize(mintAddress) == IF mintAddress = WSOL THEN "SOL" ELSE mintAddress

\* this.cache.get(mintAddress): an entry, or undefined
NoEntry == [has |-> FALSE, price |-> 0, timestamp |-> 0, asset |-> "-"]
CacheEntry(price, timestamp, asset) ==
  [has |-> TRUE, price |-> price, timestamp |-> timestamp, asset |-> asset]
CacheGet(key) == IF key \in DOMAIN cache THEN cache[key] ELSE NoEntry

\* this.cache.set(mintAddress, { price, timestamp: Date.now() })
CacheSet(key, a) ==
  [m \in DOMAIN cache \cup {key} |->
     IF m = key THEN CacheEntry(a.value, now, a.asset) ELSE cache[m]]

\* (a variant whose entries expire one millisecond early)
FreshEarly(cached) ==
  cached.has /\ now - cached.timestamp < cacheDuration - 1
\* `cached && Date.now() - cached.timestamp < this.cacheDuration`
Fresh(cached) ==
  cached.has /\ now - cached.timestamp < cacheDuration

\* (a variant that forgets the stale entry)
FallbackZero(cached) == Number(0, "-")
\* `return cached?.price || 0`
Fallback(cached) ==
  IF cached.has /\ cached.price # 0 THEN Number(cached.price, cached.asset)
  ELSE Number(0, "-")

\* (a variant that skips a source after a failure)
NextSourceSkipping(k) == k + 2
\* `for (const source of sources)`
NextSource(k) == k + 1

\* k: the source awaited; invoked: the sources invoked so far; last: what the
\* source before it gave
NoCall == [pc |-> "idle", arg |-> "-", key |-> "-", cached |-> NoEntry,
           k |-> 0, invoked |-> << >>, last |-> Undefined]

\* what the history keeps of an invocation that returned `ret`
Returned(g, ret, wrote) ==
  [arg |-> g.arg, key |-> g.key, cached |-> g.cached, invoked |-> g.invoked,
   last |-> g.last, ret |-> ret, wrote |-> wrote]

Trackers == << today, processedTxs, dailyTokenStats, alertedTokens, task, scans,
               sweeps, analyzeStarted, alertsFor, windowAlerts, checkLog, sent >>

Outside == << WALLETS, chain, limits, swIn, swOut, lookup, gate, Trackers >>

\* getPrice(mintAddress) is called: a fresh entry is returned at once, otherwise the
\* first source is invoked
GetPriceCalled(c, mintAddress) ==
  LET key    == Normalize(mintAddress)
      cached == CacheGet(key)
      g      == [NoCall EXCEPT !.arg = mintAddress, !.key = key, !.cached = cached]
  IN  /\ calls[c].pc = "idle"
      /\ priceOps.calls < PriceCalls
      /\ priceOps' = [priceOps EXCEPT !.calls = @ + 1]
      /\ IF Fresh(cached)
         THEN /\ priceLog' =
                               {Returned(g, Number(cached.price, cached.asset), FALSE)}
              /\ UNCHANGED calls
         ELSE /\ calls' = [calls EXCEPT ![c] =
                             [g EXCEPT !.pc = "source", !.k = 1, !.invoked = << 1 >>]]
              /\ UNCHANGED priceLog
      /\ UNCHANGED << cache, now, Outside >>

\* the awaited source yields a price: it is cached and returned
SourceYields(c) ==
  LET g == calls[c]
  IN  /\ g.pc = "source"
      /\ \E a \in AnswersOf(g.k, g.key) :
           /\ Truthy(a)
           /\ cache' = CacheSet(g.key, a)
           /\ priceLog' =
                 {Returned([g EXCEPT !.last = a], a, TRUE)}
      /\ calls' = [calls EXCEPT ![c] = NoCall]
      /\ UNCHANGED << now, priceOps, Outside >>

\* the awaited source throws (logged by the catch) or yields nothing, and there is
\* a next source: it is invoked
SourceFails(c) ==
  LET g == calls[c]
      n == NextSource(g.k)
  IN  /\ g.pc = "source"
      /\ n <= Len(Sources)
      /\ \E a \in AnswersOf(g.k, g.key) :
           /\ ~Truthy(a)
           /\ calls' = [calls EXCEPT ![c] =
                          [g EXCEPT !.k = n, !.invoked = Append(@, n), !.last = a]]
      /\ UNCHANGED << cache, now, priceLog, priceOps, Outside >>

\* the last source fails too: `return cached?.price || 0`
AllSourcesFail(c) ==
  LET g == calls[c]
  IN  /\ g.pc = "source"
      /\ NextSource(g.k) > Len(Sources)
      /\ \E a \in AnswersOf(g.k, g.key) :
           /\ ~Truthy(a)
           /\ priceLog' =
                 {Returned([g EXCEPT !.last = a], Fallback(g.cached), FALSE)}
      /\ calls' = [calls EXCEPT ![c] = NoCall]
      /\ UNCHANGED << cache, now, priceOps, Outside >>

\* time passes
ClockAdvances ==
  /\ priceOps.ticks < PriceTicks
  /\ \E d \in Delays : now' = now + d
  /\ priceOps' = [priceOps EXCEPT !.ticks = @ + 1]
  /\ UNCHANGED << cache, calls, priceLog, Outside >>

-----------------------------------------------------------------------------
(* getTokenDetails: built-in SOL, the Jupiter strict list, the mint account  *)

\* a field the response does not have
NoText == "undefined"
NoDecimals == 0 - 1

\* axios.get(`https://token.jup.ag/strict/${mintAddress}`) throws (no response,
\* timeout, a status outside 2xx) or gives a body, whose fields may be missing
JupiterAnswers ==
  {[kind |-> "throw", symbol |-> NoText, name |-> NoText, decimals |-> NoDecimals]} \cup
  { [kind |-> "data", symbol |-> sy, name |-> IF sy = NoText THEN NoText ELSE "Bonk",
     decimals |-> de] :
      sy \in {NoText, "BONK"}, de \in {NoDecimals, 6} }

\* connection.getParsedAccountInfo(new PublicKey(mintAddress)) throws (also when
\* the mint is no valid key), finds no parsed account (value null), or gives
\* parsed info, whose fields may be missing or falsy
AccountAnswers ==
  {[kind |-> "throw", symbol |-> NoText, name |-> NoText, decimals |-> NoDecimals],
   [kind |-> "null", symbol |-> NoText, name |-> NoText, decimals |-> NoDecimals]} \cup
  { [kind |-> "info", symbol |-> sy, name |-> NoText, decimals |-> de] :
      sy \in {NoText, "", "PEPE"}, de \in {NoDecimals, 0, 6} }

DetailMints == {WSOL, "M"}

Identity(symbol, name, decimals, verified) ==
  [outcome |-> "returned", symbol |-> symbol, name |-> name,
   decimals |-> decimals, verified |-> verified]

NoIdentity == [outcome |-> "pending", symbol |-> NoText, name |-> NoText,
               decimals |-> NoDecimals, verified |-> FALSE]

\* details?.symbol || 'TOKEN', details?.name || 'Unknown Token'
SymbolOr(symbol, default) == IF symbol \in {NoText, ""} THEN default ELSE symbol

\* details?.decimals || 9
DecimalsOr(decimals, default) == IF decimals \in {NoDecimals, 0} THEN default ELSE decimals

\* the identity of the last catch
Placeholder == Identity("TOKEN", "Unknown Token", 9, FALSE)

getTokenDetails(mintAddress, jupiter, account) ==
  IF mintAddress = WSOL THEN Identity("SOL", "Solana", 9, TRUE)
  ELSE IF jupiter.kind # "throw"
       THEN Identity(jupiter.symbol, jupiter.name, jupiter.decimals, TRUE)
  ELSE IF account.kind # "throw"
       THEN Identity(SymbolOr(account.symbol, "TOKEN"),
                     SymbolOr(account.name, "Unknown Token"),
                     DecimalsOr(account.decimals, 9), FALSE)
  ELSE Placeholder

\* no lookup under test
NoLookup ==
  [mint |-> "-", account |-> [kind |-> "throw", symbol |-> NoText, name |-> NoText, decimals |-> NoDecimals],
   jupiter |-> [kind |-> "throw", symbol |-> NoText, name |-> NoText, decimals |-> NoDecimals],
   result |-> NoIdentity, remote |-> 0, first |-> NoIdentity]

\* the requests one call sends out: none for the built-in mint, the strict list,
\* and the mint account when the list request threw
RemoteCalls(mintAddress, jupiter) ==
  IF mintAddress = WSOL THEN 0 ELSE IF jupiter.kind # "throw" THEN 1 ELSE 2

\* a call of getTokenDetails about to run: its argument and what its sources
\* will answer; `first` is what the previous call for the mint returned
LookupOf(m, j, a, first) ==
  [mint |-> m, jupiter |-> j, account |-> a, result |-> NoIdentity, remote |-> 0,
   first |-> first]

\* the lookups put to getTokenDetails
Lookups ==
  { LookupOf(m, j, a, NoIdentity) :
      m \in DetailMints, j \in JupiterAnswers, a \in AccountAnswers }

-----------------------------------------------------------------------------
(* The request throttle: the axios request interceptor of src/tracker.js     *)

ThrottleRequests == 3
ThrottleTicks == 4

\* `1000 - (now - lastCallTime)`: one second between requests
PacingInterval == 1000

\* Date.now() when the module was loaded; the clock `now` counts from there
StartedAt == 1000000

DateNow == StartedAt + now

\* how far the clock moves between two events
Pauses == {300, 400, PacingInterval}

\* `let lastCallTime = 0`, no request submitted
NoGate == [lastCallTime |-> 0, sleeping |-> << >>, released |-> << >>,
           submitted |-> 0, ticks |-> 0]

\* Math.max(0, 1000 - (now - lastCallTime))
Delay(submittedAt, lastCallTime) ==
  IF PacingInterval - (submittedAt - lastCallTime) > 0
  THEN PacingInterval - (submittedAt - lastCallTime) ELSE 0

\* setTimeout(resolve, delay): Node runs a timer of less than 1 ms after 1 ms
TimerDelay(delay) == IF delay < 1 THEN 1 ELSE delay

\* a request enters the interceptor: it reads the clock and lastCallTime, and
\* sleeps on its own timer
Submit ==
  LET r == gate.submitted + 1
      d == Delay(DateNow, gate.lastCallTime)
  IN  /\ gate.submitted < ThrottleRequests
      /\ gate' = [gate EXCEPT
                    !.submitted = r,
                    !.sleeping = [q \in DOMAIN gate.sleeping \cup {r} |->
                                   IF q = r THEN [now |-> DateNow, delay |-> TimerDelay(d)]
                                   ELSE gate.sleeping[q]]]
      /\ UNCHANGED << WALLETS, chain, limits, swIn, swOut, cache, now, calls, priceLog,
                      priceOps, lookup, Trackers >>

Due(r) == gate.sleeping[r].now + gate.sleeping[r].delay

\* setTimeout: a timer runs after those that were set before it with a delay
\* not longer than its own; timers that expire together are otherwise unordered
MayFire(r) ==
  /\ Due(r) <= DateNow
  /\ \A q \in DOMAIN gate.sleeping :
        (q < r /\ gate.sleeping[q].delay <= gate.sleeping[r].delay) => Due(q) > DateNow

\* the timer of request r fires: `lastCallTime = now; return config`, and the
\* request goes out
Release(r) ==
  /\ r \in DOMAIN gate.sleeping
  /\ MayFire(r)
  /\ gate' = [gate EXCEPT
                !.lastCallTime = gate.sleeping[r].now,
                !.sleeping = [q \in DOMAIN gate.sleeping \ {r} |-> gate.sleeping[q]],
                !.released = Append(@, [request |-> r, at |-> DateNow])]
  /\ UNCHANGED << WALLETS, chain, limits, swIn, swOut, cache, now, calls, priceLog,
                  priceOps, lookup, Trackers >>

\* the time to the next timer, when one is set
ToNextTimer == { Due(r) - DateNow : r \in DOMAIN gate.sleeping }

\* time passes, up to the next timer at most
Pause ==
  /\ gate.ticks < ThrottleTicks
  /\ \E d \in Pauses \cup ToNextTimer :
       /\ d > 0
       /\ \A r \in DOMAIN gate.sleeping : Due(r) >= DateNow + d
       /\ now' = now + d
  /\ gate' = [gate EXCEPT !.ticks = @ + 1]
  /\ UNCHANGED << WALLETS, chain, limits, swIn, swOut, cache, calls, priceLog,
                  priceOps, lookup, Trackers >>

-----------------------------------------------------------------------------
(* Initial states and specifications                                        *)

NoInput == [pre |-> << >>, post |-> << >>, wallet |-> "-", price |-> << >>]

\* three watched wallets buying the same mint
RaceChain ==
  [sigsOf |-> [w \in {"W1", "W2", "W3"} |->
                 CASE w = "W1" -> << "S1" >>
                   [] w = "W2" -> << "S2" >>
                   [] w = "W3" -> << "S3" >>],
   txOf |-> [s \in {"S1", "S2", "S3"} |->
                 CASE s = "S1" -> TransferTx("W1", "M", 10)
                   [] s = "S2" -> TransferTx("W2", "M", 10)
                   [] s = "S3" -> TransferTx("W3", "M", 10)]]

\* five watched wallets W1..W5 buying the same mint; W1 receives it twice in one
\* transaction, W2 also sends some out, W5 also swaps
SeqChain ==
  [sigsOf |-> [w \in {"W1", "W2", "W3", "W4", "W5"} |->
                 CASE w = "W1" -> << "S1" >>
                   [] w = "W2" -> << "S2" >>
                   [] w = "W3" -> << "S3" >>
                   [] w = "W4" -> << "S4" >>
                   [] w = "W5" -> << "S5", "S6" >>],
   txOf |-> [s \in {"S1", "S2", "S3", "S4", "S5", "S6"} |->
                 CASE s = "S1" -> [TransferTx("W1", "M", 10) EXCEPT
                                     !.ixs = << Instruction("transfer", "M", "W1", 10),
                                                Instruction("transferChecked", "M", "W1", 10) >>]
                   [] s = "S2" -> [TransferTx("W2", "M", 10) EXCEPT
                                     !.ixs = << Instruction("transfer", "M", "X", 5),
                                                Instruction("transfer", "M", "W2", 10) >>]
                   [] s = "S3" -> TransferTx("W3", "M", 10)
                   [] s = "S4" -> TransferTx("W4", "M", 10)
                   [] s = "S5" -> TransferTx("W5", "M", 10)
                   [] s = "S6" -> SwapTx("W5", "USDC", 100, "M", 20)]]

\* three watched wallets buying the same mint: W1's transaction carries no
\* token-balance snapshots, W2 also has a response without instructions, W3's
\* transaction also sends some of the mint out
ShapeChain ==
  [sigsOf |-> [w \in {"W1", "W2", "W3"} |->
                 CASE w = "W1" -> << "S1" >>
                   [] w = "W2" -> << "S2", "S4" >>
                   [] w = "W3" -> << "S3" >>],
   txOf |-> [s \in {"S1", "S2", "S3", "S4"} |->
                 CASE s = "S1" -> WithoutBalances(TransferTx("W1", "M", 10))
                   [] s = "S2" -> TransferTx("W2", "M", 10)
                   [] s = "S3" -> [TransferTx("W3", "M", 10) EXCEPT
                                     !.ixs = << Instruction("transfer", "M", "X", 5),
                                                Instruction("transfer", "M", "W3", 10) >>]
                   [] s = "S4" -> WithoutInstructions(SwapTx("W2", "USDC", 100, "M", 20))]]

\* three watched wallets buying the same mint; one transaction pays W1 and W2
\* together, so its signature is in the recent list of both
SharedChain ==
  [sigsOf |-> [w \in {"W1", "W2", "W3"} |->
                 CASE w = "W1" -> << "S1" >>
                   [] w = "W2" -> << "S1", "S2" >>
                   [] w = "W3" -> << "S3" >>],
   txOf |-> [s \in {"S1", "S2", "S3"} |->
                 CASE s = "S1" -> [TransferTx("W1", "M", 10) EXCEPT
                                     !.ixs = << Instruction("transfer", "M", "W1", 10),
                                                Instruction("transfer", "M", "W2", 10) >>,
                                     !.pre = << Balance("W1", "M", 0), Balance("W2", "M", 0) >>,
                                     !.post = << Balance("W1", "M", 10), Balance("W2", "M", 10) >>]
                   [] s = "S2" -> TransferTx("W2", "M", 10)
                   [] s = "S3" -> TransferTx("W3", "M", 10)]]

\* six watched wallets buying the same mint, enough for two buckets of three
DaysChain ==
  [sigsOf |-> [w \in {"W1", "W2", "W3", "W4", "W5", "W6"} |->
                 CASE w = "W1" -> << "S1" >>
                   [] w = "W2" -> << "S2" >>
                   [] w = "W3" -> << "S3" >>
                   [] w = "W4" -> << "S4" >>
                   [] w = "W5" -> << "S5" >>
                   [] w = "W6" -> << "S6" >>],
   txOf |-> [s \in {"S1", "S2", "S3", "S4", "S5", "S6"} |->
                 CASE s = "S1" -> TransferTx("W1", "M", 10)
                   [] s = "S2" -> TransferTx("W2", "M", 10)
                   [] s = "S3" -> TransferTx("W3", "M", 10)
                   [] s = "S4" -> TransferTx("W4", "M", 10)
                   [] s = "S5" -> TransferTx("W5", "M", 10)
                   [] s = "S6" -> TransferTx("W6", "M", 10)]]

ChainMints(ch) ==
  UNION { { ch.txOf[s].ixs[k].mint : k \in 1..Len(ch.txOf[s].ixs) }
            \cup TxMints(ch.txOf[s]) : s \in DOMAIN ch.txOf } \ {"-"}

\* the state after the module is loaded: empty trackers, no scan started
Loaded(wallets, ch) ==
  /\ WALLETS = wallets
  /\ chain = ch
  /\ today = 0
  /\ processedTxs = {}
  /\ dailyTokenStats = [d \in {} |-> EmptyDay]
  /\ alertedTokens = {}
  /\ task = [c \in Tasks |-> Idle]
  /\ scans = 0
  /\ sweeps = 0
  /\ analyzeStarted = [s \in DOMAIN ch.txOf |-> 0]
  /\ alertsFor = [s \in DOMAIN ch.txOf |-> 0]
  /\ windowAlerts = [m \in ChainMints(ch) |-> 0]
  /\ checkLog = {}
  /\ cache = << >>
  /\ now = 0
  /\ calls = [c \in Callers |-> NoCall]
  /\ priceLog = {}
  /\ priceOps = [calls |-> 0, ticks |-> 0]
  /\ sent = NoSend

Pending == [done |-> FALSE, r |-> NoSwap]

Init ==
  /\ Loaded(<< "W1", "W2", "W3" >>, RaceChain)
  /\ lookup = NoLookup
  /\ gate = NoGate
  /\ limits = [scans |-> RaceScans, sweeps |-> RaceSweeps, days |-> 0,
              failures |-> FALSE]
  /\ swIn = NoInput
  /\ swOut = Pending

Next ==
  \/ \E c \in Tasks : StartScan(c)
  \/ \E c \in Tasks : Step(c)
  \/ Sweep

\* overlapping scan cycles within one day
Spec == Init /\ [][Next]_vars

\* overlapping scan cycles over the ledger in which W2 has two signatures
InitOverlap ==
  /\ Loaded(<< "W1", "W2", "W3" >>, ShapeChain)
  /\ lookup = NoLookup
  /\ gate = NoGate
  /\ limits = [scans |-> RaceScans, sweeps |-> RaceSweeps, days |-> 0,
              failures |-> FALSE]
  /\ swIn = NoInput
  /\ swOut = Pending

SpecOverlap == InitOverlap /\ [][Next]_vars

\* one scan cycle at a time (each returns before the timer fires again), over days
StartAlone ==
  /\ \A d \in Tasks : task[d].pc = "idle"
  /\ StartScan(1)

InitSeq ==
  /\ Loaded(<< "W1", "W2", "W3", "W4", "W5" >>, SeqChain)
  /\ lookup = NoLookup
  /\ gate = NoGate
  /\ limits = [scans |-> SeqScans, sweeps |-> SeqSweeps, days |-> SeqDays,
              failures |-> FALSE]
  /\ swIn = NoInput
  /\ swOut = Pending

\* the steps of a scan in this specification (the null transaction is left to Spec)
StepSeq(c) ==
  \/ ListReturns(c)
  \/ ListThrows(c)
  \/ FetchThrows(c)
  \/ FetchReturns(c)
  \/ DetailsReturn(c)
  \/ PriceReturns(c)
  \/ SendReturns(c)
  \/ SwapReturns(c)

NextSeq ==
  \/ StartAlone
  \/ \E c \in Tasks : StepSeq(c)
  \/ Sweep
  \/ NextDay

SpecSeq == InitSeq /\ [][NextSeq]_vars

\* one scan cycle at a time over a ledger with transactions that lack
\* instructions or snapshots or come back null, the alert sink failing at times
InitShape ==
  /\ Loaded(<< "W1", "W2", "W3" >>, ShapeChain)
  /\ lookup = NoLookup
  /\ gate = NoGate
  /\ limits = [scans |-> SeqScans, sweeps |-> SeqSweeps, days |-> SeqDays,
              failures |-> TRUE]
  /\ swIn = NoInput
  /\ swOut = Pending

NextShape ==
  \/ StartAlone
  \/ \E c \in Tasks : Step(c)
  \/ Sweep
  \/ NextDay

SpecShape == InitShape /\ [][NextShape]_vars

\* one scan cycle at a time over the ledger with a signature shared by W1 and W2
InitShared ==
  /\ Loaded(<< "W1", "W2", "W3" >>, SharedChain)
  /\ lookup = NoLookup
  /\ gate = NoGate
  /\ limits = [scans |-> SeqScans, sweeps |-> SeqSweeps, days |-> SeqDays,
              failures |-> FALSE]
  /\ swIn = NoInput
  /\ swOut = Pending

SpecShared == InitShared /\ [][NextShape]_vars

\* one scan cycle at a time over six buyers, midnight passing during the scan
InitDays ==
  /\ Loaded(<< "W1", "W2", "W3", "W4", "W5", "W6" >>, DaysChain)
  /\ lookup = NoLookup
  /\ gate = NoGate
  /\ limits = [scans |-> SeqScans, sweeps |-> SeqSweeps, days |-> SeqDays,
              failures |-> FALSE]
  /\ swIn = NoInput
  /\ swOut = Pending

SpecDays == InitDays /\ [][NextSeq]_vars

-----------------------------------------------------------------------------
(* detectSwaps on its own: one call on each pair of snapshots                *)

Absent == 0 - 1
SwapMints == << "A", "B", "C" >>

\* the balances the watched wallet "W" may hold of each mint before and after;
\* Absent: the snapshot has no entry (no token account) for the mint
PreChoices  == [A |-> {Absent, 100}, B |-> {Absent, 50}, C |-> {Absent, 10}]
PostChoices == [A |-> {Absent, 0, 80, 100, 120}, B |-> {Absent, 0, 50, 70},
                C |-> {Absent, 10, 30}]

\* the snapshot listing the wallet's entries in the order `order`, after the
\* entries of another owner when `foreign` is not empty
Snapshot(amount, order, foreign) ==
  LET Entry(i) == Balance("W", order[i], amount[order[i]])
      RECURSIVE Build(_)
      Build(i) == IF i > Len(order) THEN << >>
                  ELSE IF amount[order[i]] = Absent THEN Build(i + 1)
                  ELSE << Entry(i) >> \o Build(i + 1)
  IN  foreign \o Build(1)

SwapInputs ==
  { [pre    |-> Snapshot(a, order, IF other THEN << Balance("X", "A", 5) >> ELSE << >>),
     post   |-> Snapshot(b, order, IF other THEN << Balance("X", "A", 500) >> ELSE << >>),
     wallet |-> "W",
     price  |-> [A |-> pa, B |-> pb, C |-> 50]] :
      a \in [A : PreChoices.A, B : PreChoices.B, C : PreChoices.C],
      b \in [A : PostChoices.A, B : PostChoices.B, C : PostChoices.C],
      order \in { << "A", "B", "C" >>, << "C", "B", "A" >> },
      other \in BOOLEAN, pa \in Prices, pb \in Prices }

InitSwap ==
  /\ Loaded(<< >>, [sigsOf |-> << >>, txOf |-> << >>])
  /\ lookup = NoLookup
  /\ gate = NoGate
  /\ limits = [scans |-> 0, sweeps |-> 0, days |-> 0,
              failures |-> FALSE]
  /\ swIn \in SwapInputs
  /\ swOut = Pending

\* detectSwaps(tx, wallet) is called and returns
RunDetectSwaps ==
  /\ ~swOut.done
  /\ swOut' = [done |-> TRUE, r |-> detectSwaps(swIn, swIn.wallet, swIn.price)]
  /\ UNCHANGED << WALLETS, chain, today, processedTxs, dailyTokenStats,
                  alertedTokens, task, scans, sweeps, analyzeStarted, alertsFor,
                  windowAlerts, checkLog, limits, swIn,
                  cache, now, calls, priceLog, priceOps, lookup, gate, sent >>

NextSwap == RunDetectSwaps

SpecSwap == InitSwap /\ [][NextSwap]_vars

-----------------------------------------------------------------------------
(* PriceService on its own: calls of getPrice as the clock advances          *)

InitPrice ==
  /\ Loaded(<< >>, [sigsOf |-> << >>, txOf |-> << >>])
  /\ lookup = NoLookup
  /\ gate = NoGate
  /\ limits = [scans |-> 0, sweeps |-> 0, days |-> 0,
              failures |-> FALSE]
  /\ swIn = NoInput
  /\ swOut = Pending

NextPrice ==
  \/ \E c \in Callers, m \in PriceMints : GetPriceCalled(c, m)
  \/ \E c \in Callers : SourceYields(c)
  \/ \E c \in Callers : SourceFails(c)
  \/ \E c \in Callers : AllSourcesFail(c)
  \/ ClockAdvances

SpecPrice == InitPrice /\ [][NextPrice]_vars

-----------------------------------------------------------------------------
(* The cleanup timer against the calendar: buckets are keyed by the UTC day,  *)
(* getYesterdayDate steps back one day of the host's local time               *)

SweepTicks == 4
SweepRuns == 2
SweepTransfers == 2

Hour == 60 * 60 * 1000
Day == 24 * Hour

\* new Date().toISOString().split('T')[0]: the UTC calendar day of instant t
ISODate(t) == t \div Day

\* how long the local day that ends at the instant of the call lasted: 23 or 25
\* hours across a daylight-saving change of the host's time zone, 24 otherwise
LocalDayLengths == {23 * Hour, Day, 25 * Hour}

\* date.setDate(date.getDate() - 1) moves to the same local wall-clock time one
\* local day earlier; toISOString() then reads the UTC day of that instant
getYesterdayDate(t, localDay) == ISODate(t - localDay)

\* how far the clock moves between two events
Elapsed == {Hour, 23 * Hour}

SweepWallets == {"W1", "W2", "W3"}
SweepMints == {"M", "N"}

\* time passes; `today` is the UTC day handlers and the sweep read
Tick ==
  /\ priceOps.ticks < SweepTicks
  /\ \E d \in Elapsed :
       /\ now' = now + d
       /\ today' = ISODate(now + d)
  /\ priceOps' = [priceOps EXCEPT !.ticks = @ + 1]
  /\ UNCHANGED << WALLETS, chain, limits, swIn, swOut, cache, calls, priceLog, lookup, gate, sent,
                  processedTxs, dailyTokenStats, alertedTokens, task, scans, sweeps,
                  analyzeStarted, alertsFor, windowAlerts, checkLog >>

\* handleTokenTransfer run to completion for one incoming transfer
HandleTransfer(wallet, mint) ==
  LET dts1   == IF today \in DOMAIN dailyTokenStats THEN dailyTokenStats
                ELSE [d \in DOMAIN dailyTokenStats \cup {today} |->
                        IF d = today THEN EmptyDay ELSE dailyTokenStats[d]]
      bucket == IF mint \in DOMAIN dts1[today] THEN dts1[today][mint] ELSE NewBucket
      after  == RecordTransfer(bucket, wallet, 10)
  IN  /\ scans < limits.scans
      /\ scans' = scans + 1
      /\ dailyTokenStats' = PutBucket(dts1, today, mint, after)
      /\ alertedTokens' = IF AlertCondition(after, mint)
                          THEN alertedTokens \cup {mint} ELSE alertedTokens
      /\ UNCHANGED << Pipeline, today, processedTxs, task, sweeps, analyzeStarted,
                      alertsFor, windowAlerts, checkLog >>

\* the cleanup timer fires, somewhere in a time zone
SweepLocal == \E localDay \in LocalDayLengths : SweepKeeping(getYesterdayDate(now, localDay))

InitSweep ==
  /\ Loaded(<< >>, [sigsOf |-> << >>, txOf |-> << >>])
  /\ lookup = NoLookup
  /\ gate = NoGate
  /\ limits = [scans |-> SweepTransfers, sweeps |-> SweepRuns, days |-> 0,
              failures |-> FALSE]
  /\ swIn = NoInput
  /\ swOut = Pending

NextSweep ==
  \/ Tick
  \/ \E w \in SweepWallets, m \in SweepMints : HandleTransfer(w, m)
  \/ SweepLocal

SpecSweep == InitSweep /\ [][NextSweep]_vars

-----------------------------------------------------------------------------
(* getTokenDetails on its own                                                *)

InitDetails ==
  /\ Loaded(<< >>, [sigsOf |-> << >>, txOf |-> << >>])
  /\ lookup \in Lookups
  /\ gate = NoGate
  /\ limits = [scans |-> 0, sweeps |-> 0, days |-> 0,
              failures |-> FALSE]
  /\ swIn = NoInput
  /\ swOut = Pending

RunGetTokenDetails ==
  /\ lookup.result.outcome = "pending"
  /\ lookup' = [lookup EXCEPT
                  !.result = getTokenDetails(lookup.mint, lookup.jupiter, lookup.account),
                  !.remote = RemoteCalls(lookup.mint, lookup.jupiter)]
  /\ UNCHANGED << WALLETS, chain, limits, swIn, swOut, cache, now, calls, priceLog,
                  priceOps, gate, Trackers >>

\* the same mint is looked up a second time (the next transfer or swap of it),
\* the sources answering as they then do
ResolveAgain ==
  /\ lookup.result.outcome = "returned"
  /\ lookup.first.outcome = "pending"
  /\ \E j \in JupiterAnswers, a \in AccountAnswers :
       lookup' = LookupOf(lookup.mint, j, a, lookup.result)
  /\ UNCHANGED << WALLETS, chain, limits, swIn, swOut, cache, now, calls, priceLog,
                  priceOps, gate, Trackers >>

NextDetails ==
  \/ RunGetTokenDetails
  \/ ResolveAgain

SpecDetails == InitDetails /\ [][NextDetails]_vars

-----------------------------------------------------------------------------
(* The throttle on its own                                                   *)

InitThrottle ==
  /\ Loaded(<< >>, [sigsOf |-> << >>, txOf |-> << >>])
  /\ lookup = NoLookup
  /\ gate = NoGate
  /\ limits = [scans |-> 0, sweeps |-> 0, days |-> 0,
              failures |-> FALSE]
  /\ swIn = NoInput
  /\ swOut = Pending

NextThrottle ==
  \/ Submit
  \/ \E r \in 1..ThrottleRequests : Release(r)
  \/ Pause

SpecThrottle == InitThrottle /\ [][NextThrottle]_vars

-----------------------------------------------------------------------------
(* Deduplication: claims C1 - C3 (checked under Spec)                        *)

InAnalysis(t) == t.pc \in {"details", "price", "send", "swap"}

\* C1: analyzeTransaction is started at most once for each signature during the
\* process lifetime, over any sequence of scan cycles (overlapping ones included)
\* and any outcome of the ledger calls.
C1_AnalyzedAtMostOnce ==
  \A s \in DOMAIN analyzeStarted : analyzeStarted[s] <= 1

\* C2: for every signature S the ledger returns in two scans, the alerts sent
\* that are attributable to S, over both runs, number at most one.
C2_AtMostOneAlertPerSignature ==
  \A s \in DOMAIN alertsFor : alertsFor[s] <= 1

\* C3: a signature absent from the seen-set is added to it before
\* getParsedTransaction / analyzeTransaction is invoked for it (and stays there
\* when that step throws): whenever an invocation is fetching or analysing a
\* signature, the signature is in processedTxs.
C3_MarkedBeforeProcessing ==
  \A c \in Tasks :
    (task[c].pc = "fetch" \/ InAnalysis(task[c])) => SigOf(task[c]) \in processedTxs

-----------------------------------------------------------------------------
(* Coordinated buying: claims C4 - C7                                        *)

\* the evaluations of the alert condition for the bucket of (day, mint)
ChecksOf(day, mint) == { r \in checkLog : r.day = day /\ r.mint = mint }

AlertsOf(day, mint) == { r \in ChecksOf(day, mint) : r.emitted }

LoggedDays == { r.day : r \in checkLog }

\* the incoming transfers of all five wallets were handled on `day`
FiveHandled(day) ==
  { r.wallet : r \in ChecksOf(day, "M") } = {"W1", "W2", "W3", "W4", "W5"}

\* exactly one alert, emitted by the transfer that raised the count from 2 to 3
OneAlertAtThird(day) ==
  /\ Cardinality(AlertsOf(day, "M")) = 1
  /\ \A r \in AlertsOf(day, "M") : r.size = 3 /\ r.grew
  /\ \A r \in ChecksOf(day, "M") : r.size > 3 => ~r.emitted

\* no sweep ran between the handling of the first and of the last of them
OneWindow(day) ==
  \A r, q \in ChecksOf(day, "M") : r.window = q.window

\* the mint was not in alertedTokens when the day's first transfer was handled
CleanStart(day) ==
  \A r \in ChecksOf(day, "M") : (r.size = 1 /\ r.grew) => ~r.alerted

\* C4 as stated: five distinct wallets W1..W5 receiving one mint within one day,
\* the sweep free to run at any point: exactly one coordinated-buy alert, at the
\* transfer raising the count from 2 to 3; W4 and W5 emit none.
C4_ExactlyOnceAnySweep ==
  \A d \in LoggedDays : FiveHandled(d) => OneAlertAtThird(d)

\* C4 as amended: the same, when no sweep runs between the five transfers and
\* the mint is not in alertedTokens when the first of them arrives.
C4_ExactlyOnceInOneWindow ==
  \A d \in LoggedDays :
    (FiveHandled(d) /\ OneWindow(d) /\ CleanStart(d)) => OneAlertAtThird(d)

\* all five were handled in one window, W4 and W5 after the alert
C4_Witness ==
  \E d \in LoggedDays :
    /\ FiveHandled(d) /\ OneWindow(d) /\ CleanStart(d)
    /\ \E r \in ChecksOf(d, "M") : r.wallet = "W5" /\ r.size = 5 /\ r.alerted /\ ~r.emitted

\* C5: between two consecutive sweeps at most one coordinated-buy alert is sent
\* per mint, under every interleaving of handleTokenTransfer invocations.
C5_OneAlertPerWindow ==
  \A m \in DOMAIN windowAlerts : windowAlerts[m] <= 1

\* C6 as stated: once a coordinated-buy alert has been emitted for a bucket, no
\* later transfer into that bucket emits another, for as long as the bucket exists.
C6_NeverLeavesAlerted ==
  \A d \in LoggedDays : Cardinality(AlertsOf(d, "M")) <= 1

\* C6 as amended: once the mint of an alerted bucket is in alertedTokens, no
\* transfer emits another coordinated-buy alert for it, and the mint stays in
\* alertedTokens, until a sweep runs.
C6_AlertedUntilSweep ==
  [][ \A m \in alertedTokens :
        /\ \A r \in checkLog' \ checkLog : r.mint = m => ~r.emitted
        /\ (m \in alertedTokens' \/ sweeps' # sweeps) ]_vars

\* a transfer into an alerted bucket was handled in silence
C6_Witness ==
  \E d \in LoggedDays : \E r, q \in ChecksOf(d, "M") :
    r.emitted /\ q.window = r.window /\ q.alerted /\ ~q.emitted /\ q.size > r.size

\* C7: a coordinated-buy alert is emitted by an incoming transfer exactly when,
\* after the transfer is recorded, the bucket holds at least MIN_WALLETS distinct
\* wallets and the mint is not in alertedTokens; none is emitted while it holds
\* fewer, however many transfers one wallet makes.
C7_AlertIffThreeWalletsAndNotAlerted ==
  \A r \in checkLog : r.emitted <=> (r.size >= MIN_WALLETS /\ ~r.alerted)

\* one wallet's second transfer was handled in silence, and an alert was emitted
C7_Witness ==
  /\ \E r \in checkLog : ~r.grew /\ r.size < MIN_WALLETS /\ ~r.emitted
  /\ \E r \in checkLog : r.emitted

-----------------------------------------------------------------------------
(* Swap classification: claims C8 - C10 (checked under SpecSwap)             *)

\* the wallet's balance of a mint in a snapshot, a missing entry counting as 0
BalanceIn(snapshot, wallet, mint) ==
  LET I == { i \in 1..Len(snapshot) :
               snapshot[i].owner = wallet /\ snapshot[i].mint = mint }
  IN  IF I = {} THEN 0 ELSE snapshot[MinOf(I)].uiAmount

ChangeOf(mint) ==
  BalanceIn(swIn.post, swIn.wallet, mint) - BalanceIn(swIn.pre, swIn.wallet, mint)

ChangedMints == { m \in Range(SwapMints) : ChangeOf(m) # 0 }

\* exactly two mints changed, `sold` down and `bought` up
IsSwapOf(sold, bought) ==
  /\ ChangedMints = {sold, bought}
  /\ ChangeOf(sold) < 0
  /\ ChangeOf(bought) > 0

\* C8: when exactly two mints of the wallet changed balance, with opposite signs,
\* one Swap is emitted: sold is the mint that decreased, bought the one that
\* increased, the amounts are the absolute differences, whatever the order of
\* the snapshot entries.
C8_SwapDirection ==
  swOut.done =>
    \A sold, bought \in Range(SwapMints) :
      IsSwapOf(sold, bought) =>
        /\ swOut.r.swap
        /\ swOut.r.sold = sold     /\ swOut.r.soldAmount = Abs(ChangeOf(sold))
        /\ swOut.r.bought = bought /\ swOut.r.boughtAmount = Abs(ChangeOf(bought))

\* C9: zero, one, three or more changed mints, or two changed with the same
\* sign, produce no Swap event and no swap alert.
C9_NoAmbiguousSwap ==
  swOut.done =>
    ((~ \E sold, bought \in Range(SwapMints) : IsSwapOf(sold, bought))
       => (~swOut.r.swap /\ ~swOut.r.alert))

PriceKnown(mint) == swIn.price[mint] # 0

\* C11: the USD value of a swap is abs(soldAmount) * soldPrice when the sold leg's
\* price is known, and abs(boughtAmount) * boughtPrice when only the bought leg's
\* price is known; a swap whose sold-leg price is unknown and whose bought-leg
\* value is at or above the threshold still produces a large-swap alert.
C11_ValuedByKnownLeg ==
  (swOut.done /\ swOut.r.swap) =>
    LET r == swOut.r
        boughtValue == r.boughtAmount * swIn.price[r.bought]
    IN  /\ PriceKnown(r.sold) => r.usdValue = r.soldAmount * swIn.price[r.sold]
        /\ (~PriceKnown(r.sold) /\ PriceKnown(r.bought)) =>
             /\ r.usdValue = boughtValue
             /\ boughtValue >= SWAP_THRESHOLD => r.alert

-----------------------------------------------------------------------------
(* Price oracle: claims C12 - C15 (checked under SpecPrice)                  *)

\* a source's answer that is a price
YieldsPrice(a) == a.kind = "number" /\ a.value # 0

\* the entry is younger than the TTL
Young(entry) == entry.has /\ now - entry.timestamp < cacheDuration

\* invocation c invokes its next source in this step
Advances(c) ==
  calls[c].pc = "source" /\ calls'[c].pc = "source" /\ calls'[c] # calls[c]

\* invocation c, which had invoked a source, returns in this step
ReturnsFromSources(c) == calls[c].pc = "source" /\ calls'[c].pc = "idle"

\* C12: when every price source fails for a mint and no price was ever cached for
\* it, getPrice returns an explicit Unknown result, distinguishable from every
\* numeric price including zero.
C12_UnknownWhenNeverPriced ==
  \A r \in priceLog :
    (r.invoked # << >> /\ ~r.wrote /\ ~r.cached.has /\ r.key \notin DOMAIN cache)
      => r.ret.kind = "unknown"

\* C13: on a cache miss or stale entry getPrice tries its sources in their fixed
\* order, a source that throws or yields nothing does not stop the chain, the
\* value returned is that of the first source in order that yields a price, no
\* later source is invoked after it, and the value is cached under the mint's key.
C13_FirstSourceInOrder ==
  [][ \A c \in Callers :
        /\ (calls[c].pc = "idle" /\ calls'[c].pc = "source") =>
              calls'[c].invoked = << 1 >> /\ calls'[c].k = 1
        /\ Advances(c) =>
              /\ calls'[c].k = calls[c].k + 1
              /\ calls'[c].invoked = Append(calls[c].invoked, calls[c].k + 1)
              /\ ~YieldsPrice(calls'[c].last)
        /\ ReturnsFromSources(c) =>
              \A r \in priceLog' :
                /\ r.invoked = calls[c].invoked
                /\ r.key = Normalize(r.arg)
                /\ YieldsPrice(r.last) =>
                     /\ r.ret = r.last
                     /\ r.key \in DOMAIN cache'
                     /\ cache'[r.key].price = r.last.value
                     /\ cache'[r.key].timestamp = now
                /\ ~YieldsPrice(r.last) => Len(r.invoked) = Len(Sources) ]_vars

\* sources 1 and 2 failed, source 3 gave 42: returned and cached
C13_Witness ==
  \E r \in priceLog :
    /\ r.invoked = << 1, 2, 3 >> /\ r.last.value = 42 /\ r.ret.value = 42
    /\ r.key \in DOMAIN cache /\ cache[r.key].price = 42

\* C14: whenever the cache holds an entry for the (normalized) mint that is
\* younger than the TTL, getPrice returns the cached price and invokes no source.
C14_YoungEntryServedFromCache ==
  [][ priceOps'.calls # priceOps.calls =>
        /\ \A c \in Callers : calls'[c] # calls[c] => ~Young(CacheGet(calls'[c].key))
        /\ calls' = calls =>
             \A r \in priceLog' :
               r.invoked = << >> /\ r.ret.value = CacheGet(r.key).price ]_vars

\* a call for the wrapped mint was served from the entry under "SOL", one
\* millisecond before it expired
C14_Witness ==
  \E r \in priceLog :
    /\ r.arg = WSOL /\ r.invoked = << >> /\ r.cached.has
    /\ now - r.cached.timestamp = cacheDuration - 1
    /\ r.ret.value = r.cached.price

\* C15: when the cached price is older than the TTL and every source fails on
\* refresh, getPrice returns the previously cached price (not Unknown, not zero)
\* and leaves the cache entry unchanged.
C15_StalePriceWhenAllFail ==
  [][ \A c \in Callers :
        ReturnsFromSources(c) =>
          \A r \in priceLog' :
            (~r.wrote /\ r.cached.has) =>
              /\ r.ret.kind = "number"
              /\ r.ret.value = r.cached.price
              /\ r.ret.value # 0
              /\ cache' = cache ]_vars

\* all four sources failed on a stale entry, whose price was returned
C15_Witness ==
  \E r \in priceLog :
    /\ Len(r.invoked) = Len(Sources) /\ ~r.wrote /\ r.cached.has
    /\ r.ret.value = r.cached.price
    /\ r.key \in DOMAIN cache /\ cache[r.key] = r.cached

-----------------------------------------------------------------------------
(* Eviction and re-arming by the sweep: claims C16 - C17                     *)

\* C16: after a sweep that runs on day D+2 or later no bucket for day D remains;
\* the sweep removes exactly the buckets whose day is neither the current day
\* nor the immediately preceding day and leaves the buckets of those two days
\* unchanged.
C16_SweepKeepsTodayAndYesterday ==
  [][ sweeps' # sweeps =>
        /\ DOMAIN dailyTokenStats' = DOMAIN dailyTokenStats \cap {today, today - 1}
        /\ \A d \in DOMAIN dailyTokenStats' : dailyTokenStats'[d] = dailyTokenStats[d]
        /\ \A d \in DOMAIN dailyTokenStats' : d + 2 > today ]_vars

\* the alert of invocation c has been sent and its mint is being latched
Latches(c, mint) ==
  task[c].pc = "send" /\ task'[c].pc # "send" /\ IxOf(task[c]).mint = mint

-----------------------------------------------------------------------------
(* The bucket across its alert: claims C18 - C19                             *)

\* dailyTokenStats[day][mint], an empty bucket standing for a missing one
BucketAt(dts, day, mint) ==
  IF day \in DOMAIN dts /\ mint \in DOMAIN dts[day] THEN dts[day][mint] ELSE NewBucket

IsPrefix(s, t) == Len(s) <= Len(t) /\ SubSeq(t, 1, Len(s)) = s

C19_WalletCountNeverDecreases ==
  [][ \A d \in DOMAIN dailyTokenStats \cap DOMAIN dailyTokenStats' :
        \A m \in DOMAIN dailyTokenStats[d] \cap DOMAIN dailyTokenStats'[d] :
          Cardinality(Range(dailyTokenStats'[d][m].wallets))
            >= Cardinality(Range(dailyTokenStats[d][m].wallets)) ]_vars

-----------------------------------------------------------------------------
(* Token identity: claim C20 (checked under SpecDetails)                     *)

AllSourcesFailed == lookup.mint # WSOL /\ lookup.jupiter.kind = "throw" /\ lookup.account.kind = "throw"

\* C20: getTokenDetails returns a token identity for every mint and every
\* combination of source failures or empty responses (it never throws and never
\* returns nothing), and when all sources fail the identity returned is the
\* placeholder with symbol "UNKNOWN", decimals 9 and verified false.
C20_PlaceholderIsUnknown ==
  lookup.result.outcome # "pending" =>
    /\ lookup.result.outcome = "returned"
    /\ AllSourcesFailed =>
         /\ lookup.result.symbol = "UNKNOWN"
         /\ lookup.result.decimals = 9
         /\ ~lookup.result.verified

\* C21: once a mint that is not in the built-in table has been resolved, every
\* later resolution of the same mint returns the same identity without invoking
\* the remote token list or the on-chain lookup again.
C21_ResolvedOnce ==
  (lookup.mint # WSOL /\ lookup.first.outcome = "returned"
     /\ lookup.result.outcome = "returned") =>
    /\ lookup.result = lookup.first
    /\ lookup.remote = 0

-----------------------------------------------------------------------------
(* The throttle: claims C22 - C23 (checked under SpecThrottle)               *)

\* C22: any two outbound HTTP calls released by the throttle are released at
\* least one pacing interval (1 second) apart, including when several requests
\* are submitted at the same instant or while an earlier one is still waiting.
C22_ReleasesOneIntervalApart ==
  \A i, j \in 1..Len(gate.released) :
    i < j => gate.released[j].at - gate.released[i].at >= PacingInterval

\* C23: requests are released in the order in which they were submitted: if r1
\* is submitted before r2, r1 is released before r2.
C23_ReleasedInSubmissionOrder ==
  \A i, j \in 1..Len(gate.released) :
    i < j => gate.released[i].request < gate.released[j].request

-----------------------------------------------------------------------------
(* The scan loop under failures: claims C24 - C25                            *)

\* the signatures of wallet number w, from index `from` on, that are not in
\* processedTxs after the step
Unseen(w, from) ==
  { j \in from..Len(chain.sigsOf[WALLETS[w]]) :
      chain.sigsOf[WALLETS[w]][j] \notin processedTxs' }

\* invocation c leaves the signature (or the listing) it was at
LeavesPosition(c) ==
  /\ task[c].pc # "idle"
  /\ task'[c].w # task[c].w \/ task'[c].i # task[c].i \/ task'[c].pc = "idle"

\* invocation c is at the next signature of its wallet that is not yet seen
AtNextUnseen(c, from) ==
  /\ task'[c].pc = "fetch"
  /\ task'[c].w = task[c].w
  /\ task'[c].i = MinOf(Unseen(task[c].w, from))

\* invocation c is at the next wallet, or has returned after the last one
AtNextWallet(c) ==
  IF task[c].w < Len(WALLETS)
  THEN task'[c].pc = "list" /\ task'[c].w = task[c].w + 1
  ELSE task'[c].pc = "idle"

\* C24: a failure while processing one signature (ledger fetch error, upstream
\* timeout, unresolved metadata, unknown price, malformed transaction) does not
\* abort the scan: every remaining signature of that wallet and every remaining
\* wallet of the cycle is still processed in the same cycle.
C24_FailureDoesNotAbortScan ==
  [][ \A c \in Tasks :
        LeavesPosition(c) =>
          IF task[c].pc = "list"
          THEN \/ Unseen(task[c].w, 1) # {} /\ AtNextUnseen(c, 1)
               \/ AtNextWallet(c)
          ELSE IF Unseen(task[c].w, task[c].i + 1) # {}
               THEN AtNextUnseen(c, task[c].i + 1)
               ELSE AtNextWallet(c) ]_vars

\* the fetch of S5 threw, and the scan is at S6, the next signature of W5
C24_Witness ==
  \E c \in Tasks :
    /\ task[c].pc # "idle" /\ WalletOf(task[c]) = "W5" /\ task[c].i = 2
    /\ "S5" \notin processedTxs
    /\ analyzeStarted["S5"] = 0

\* analyzeTransaction was called for the signature invocation c was fetching,
\* and returned at once
ReturnsAtOnce(c) ==
  /\ task[c].pc = "fetch"
  /\ analyzeStarted'[SigOf(task[c])] > analyzeStarted[SigOf(task[c])]
  /\ LeavesPosition(c)

\* invocation c sends a getParsedTransaction request
StartsFetch(c) ==
  /\ task'[c].pc = "fetch"
  /\ task[c].pc # "fetch" \/ task[c].w # task'[c].w \/ task[c].i # task'[c].i

\* C25: a signature for which the ledger returns a null parsed transaction
\* produces no event and no alert, changes no bucket, and is nevertheless added
\* to processedTxs, so it is never fetched again even if the transaction later
\* becomes available.
C25_NullIsMarkedSeen ==
  [][ /\ \A c \in Tasks :
            ReturnsAtOnce(c) =>
              /\ SigOf(task[c]) \in processedTxs'
              /\ UNCHANGED << dailyTokenStats, alertedTokens, alertsFor, windowAlerts,
                              checkLog >>
      /\ \A c \in Tasks : StartsFetch(c) => SigOf(task'[c]) \notin processedTxs'
      /\ processedTxs \subseteq processedTxs' ]_vars

\* S2 came back null: it is marked, nothing was recorded or alerted for it,
\* and the scan went on to the next signature
C25_Witness ==
  /\ "S2" \in processedTxs
  /\ analyzeStarted["S2"] = 1
  /\ alertsFor["S2"] = 0
  /\ \A r \in checkLog : r.sig # "S2"
  /\ \E c \in Tasks : task[c].pc = "fetch" /\ SigOf(task[c]) = "S4"

-----------------------------------------------------------------------------
(* Transactions without instructions or snapshots: claim C26                 *)

\* C26: a transaction that has no instructions, or that has no pre/post
\* token-balance snapshots, yields no event at all (no Transfer and no Swap is
\* handled) and raises no error.
C26_NoEventWithoutInstructionsOrSnapshots ==
  \A c \in Tasks :
    InAnalysis(task[c]) =>
      TxOf(task[c]).hasInstructions /\ TxOf(task[c]).hasBalances

-----------------------------------------------------------------------------
(* The alert sink failing: claim C27 (checked under SpecShape)               *)

\* the sendTelegramAlert call of invocation c returns to handleTokenTransfer
SendReturned(c) == task[c].pc = "send" /\ task'[c].pc # "send"

\* invocation c goes on with the transaction it is analysing
StaysInTransaction(c) ==
  /\ task'[c].w = task[c].w /\ task'[c].i = task[c].i
  /\ task'[c].pc \in {"details", "price", "swap"}

\* C27: a delivery failure of the alert sink is never retried and never
\* propagates: the send call returns normally, the mint is still added to
\* alertedTokens after a failed coordinated-buy send, and processing of the
\* following events and signatures continues.
C27_FailedSendIsSwallowed ==
  [][ \A c \in Tasks :
        SendReturned(c) =>
          /\ sent'.sig = SigOf(task[c]) /\ sent'.mint = IxOf(task[c]).mint
          /\ sent'.posts = 1
          /\ ~sent'.threw
          /\ sent'.mint \in alertedTokens'
          /\ alertsFor' = alertsFor /\ windowAlerts' = windowAlerts
          /\ \/ StaysInTransaction(c)
             \/ /\ LeavesPosition(c)
                /\ IF Unseen(task[c].w, task[c].i + 1) # {}
                   THEN AtNextUnseen(c, task[c].i + 1)
                   ELSE AtNextWallet(c) ]_vars

\* the coordinated-buy alert was not delivered; the mint is latched and the
\* signature was processed to its end
C27_Witness ==
  /\ sent.posts = 1 /\ ~sent.delivered
  /\ sent.mint \in alertedTokens
  /\ sent.sig \in processedTxs

-----------------------------------------------------------------------------
(* Threshold monotonicity: claim C28 (checked under SpecSwap)                *)

\* the answers getPrice may give in another evaluation of the same snapshots
\* in which the sold mint is served `p`
PricesWith(mint, p) == { q \in [Range(SwapMints) -> Prices] : q[mint] = p }

\* the alert decision of detectSwaps on the same snapshots served `q`
AlertsAt(q) == detectSwaps(swIn, swIn.wallet, q).alert

\* C28: with the leg amounts and the threshold fixed, the alert decision is
\* monotone in the price of the priced (sold) leg: a swap that alerts at price p
\* alerts at every price p' >= p, whatever the other mints are served; and the
\* value tested is the amount times the one price getPrice returned for that
\* mint in this evaluation.
C28_ThresholdMonotone ==
  (swOut.done /\ swOut.r.swap) =>
    LET r == swOut.r
        p == swIn.price[r.sold]
    IN  /\ r.usdValue = r.soldAmount * p
        /\ r.alert =>
             \A p2 \in Prices : p2 >= p =>
               \A q \in PricesWith(r.sold, p2) : AlertsAt(q)
        /\ ~r.alert =>
             \A p2 \in Prices : p2 <= p =>
               \A q \in PricesWith(r.sold, p2) : ~AlertsAt(q)

\* a swap that alerts at a price below the highest one, its bought mint unpriced
C28_Witness ==
  /\ swOut.done /\ swOut.r.swap /\ swOut.r.alert
  /\ \E p2 \in Prices : p2 > swIn.price[swOut.r.sold]
  /\ swIn.price[swOut.r.bought] = 0

-----------------------------------------------------------------------------
(* One signature of a wallet at a time: claim C29 (checked under SpecOverlap) *)

\* the invocation is between getParsedTransaction(signature) and
\* processedTxs.add(signature) of the signature it is at
InFlight(c) == task[c].pc \in {"fetch", "details", "price", "send", "swap"}

\* C29: within one wallet's scan a signature is processed to completion before
\* the wallet's next signature begins: no two signatures of the same wallet are
\* in flight at the same time.
C29_OneSignaturePerWalletInFlight ==
  \A c, d \in Tasks :
    (InFlight(c) /\ InFlight(d) /\ WalletOf(task[c]) = WalletOf(task[d]))
      => SigOf(task[c]) = SigOf(task[d])

-----------------------------------------------------------------------------
(* Bucket updates under interleaving: claim C30 (checked under Spec)         *)

\* the transfers handled for a day and mint: the instructions for which
\* handleTokenTransfer went past `tokenData.totalAmount += ...`
Handled(day, mint) ==
  { << r.sig, r.k >> : r \in { q \in checkLog : q.day = day /\ q.mint = mint } }

HandledWallets(day, mint) ==
  { r.wallet : r \in { q \in checkLog : q.day = day /\ q.mint = mint } }

RECURSIVE AmountOf(_)
AmountOf(transfers) ==
  IF transfers = {} THEN 0
  ELSE LET x == CHOOSE y \in transfers : TRUE
       IN  chain.txOf[x[1]].ixs[x[2]].uiAmount + AmountOf(transfers \ {x})

\* C30: updates to one (day, mint) bucket are serialized under every
\* interleaving of handleTokenTransfer invocations at their awaits: while the
\* bucket exists its wallet set holds every wallet whose incoming transfer was
\* handled for that day and mint, and its total is not below the sum of the
\* handled transfers' amounts; no contribution is overwritten or lost.
C30_BucketKeepsEveryContribution ==
  \A d \in DOMAIN dailyTokenStats : \A m \in DOMAIN dailyTokenStats[d] :
    /\ HandledWallets(d, m) \subseteq Range(dailyTokenStats[d][m].wallets)
    /\ dailyTokenStats[d][m].totalAmount >= AmountOf(Handled(d, m))

-----------------------------------------------------------------------------
(* The changed mints of detectSwaps: claim C31 (checked under SpecSwap)      *)

\* Object.keys(changes) at part_003:222
changedTokens ==
  LET changes == BalanceChanges(swIn.pre, swIn.post, swIn.wallet, 1, << >>)
  IN  { changes[i].mint : i \in 1..Len(changes) }

\* C31: the changed mints used for swap detection are exactly the mints whose
\* balance owned by the watched wallet differs between the pre and the post
\* snapshot, a missing entry counting as 0: balances of other owners are not
\* counted, and a mint the wallet holds in pre but that is absent from post
\* counts as changed.
C31_ChangedMintsAreTheDifferences ==
  swOut.done => changedTokens = ChangedMints

-----------------------------------------------------------------------------
(* Only incoming transfers touch the accumulator: claim C32 (under SpecShape) *)

\* invocation c is inside handleTokenTransfer for an instruction
Handling(t) == t.pc \in {"details", "price", "send"}

SameTransaction(c) == task'[c].w = task[c].w /\ task'[c].i = task[c].i

\* the step takes invocation c past `tokenData.totalAmount += ...` of an instruction
Records(c) ==
  /\ task'[c].pc = "price"
  /\ ~(task[c].pc = "price" /\ SameTransaction(c) /\ task'[c].k = task[c].k)

\* the instructions of the transaction the step has passed without handling them
PassedOver(c) ==
  LET from == IF Handling(task[c]) /\ SameTransaction(c) THEN task[c].k ELSE 0
      to   == IF Handling(task'[c]) THEN task'[c].k - 1 ELSE Len(TxOf(task'[c]).ixs)
  IN  { TxOf(task'[c]).ixs[j] : j \in (from + 1)..to }

\* a token transfer into the wallet
IntoWallet(ix, wallet) ==
  /\ ix.type \in {"transfer", "transferChecked"}
  /\ ix.destination = wallet
  /\ ix.uiAmount # 0

-----------------------------------------------------------------------------
(* What a source may contribute: claims C33, C34 (checked under SpecPrice)   *)

\* C33: a source that returns a zero, negative or undefined value is treated as
\* failed: such a value is never returned by getPrice as a fresh price and is
\* never written to the cache (the chain goes on to the next source).
C33_NonPositiveQuoteIsAFailure ==
  /\ \A key \in DOMAIN cache : cache[key].price > 0
  /\ \A r \in priceLog : r.wrote => (r.ret.kind = "number" /\ r.ret.value > 0)

\* C34: the price getPrice returns and caches for a mint was obtained from a
\* source queried for that mint: the price of another asset (the native asset,
\* from the sources that take no mint argument) is never returned or cached
\* under the mint's key.
C34_PriceIsOfTheMintAsked ==
  /\ \A key \in DOMAIN cache : cache[key].asset = key
  /\ \A r \in priceLog : r.ret.value # 0 => r.ret.asset = r.key

-----------------------------------------------------------------------------
(* A signature in two wallets' lists: claim C35 (checked under SpecShared)   *)

\* the wallets for which a transfer of the signature was handled
WalletsHandledFor(sig) == { r.wallet : r \in { q \in checkLog : q.sig = sig } }

\* the invocation is analysing the signature for the wallet
Analysing(c, sig, wallet) ==
  /\ task[c].pc \in {"details", "price", "send", "swap"}
  /\ SigOf(task[c]) = sig
  /\ WalletOf(task[c]) = wallet

-----------------------------------------------------------------------------
(* The latch is per mint, not per day: claim C36 (checked under SpecDays)    *)

\* C36: alertedTokens is keyed by mint alone, not by (day, mint): when a mint
\* alerted on one day and no sweep has run since, a fresh bucket created for
\* the mint on a later day that reaches the minimum distinct-wallet count emits
\* no coordinated-buy alert until a sweep clears alertedTokens.
C36_LatchOutlivesTheDay ==
  \A r, q \in checkLog :
    (/\ r.emitted
     /\ q.mint = r.mint
     /\ q.day > r.day
     /\ q.window = r.window) => ~q.emitted

\* M alerted on day 0; with no sweep since, the bucket of day 1 got its third
\* wallet and stayed silent
C36_Witness ==
  \E r, q \in checkLog :
    /\ r.emitted
    /\ q.mint = r.mint /\ q.day > r.day /\ q.window = r.window
    /\ q.grew /\ q.size >= MIN_WALLETS /\ ~q.emitted
    /\ q.mint \in alertedTokens

=============================================================================
